---------------------------- MODULE Spec2Model ----------------------------
(***************************************************************************)
(* Model of xtd::strings (xtd.strings/include/xtd/strings.hpp).            *)
(*                                                                         *)
(* A string is a sequence of character codes.  split is modelled twice     *)
(* from the same loop body: as actions that advance the iterator one       *)
(* character at a time (so that the result list can be observed during     *)
(* the scan), and as the operator split, the function of its arguments.    *)
(* The functions are noexcept: an exception leaving one of them ends the   *)
(* program (std::terminate); that outcome is the control state             *)
(* "terminate".                                                            *)
(***************************************************************************)
EXTENDS Integers, Sequences, FiniteSets, TLC

VARIABLES str, separators, count, options, it, subString, list, value,
          ignore_case, ret, pc, fn, Char, char_signed,
          index_a, index_b, length

\* fn is the function of xtd::strings that is called, Char the character
\* type it is instantiated with, char_signed whether the build's plain char
\* is a signed type.
\* index_a, index_b and length are the bounds of the substrings that the
\* substring compare is handed.
vars == <<str, separators, count, options, it, subString, list, value,
          ignore_case, ret, pc, fn, Char, char_signed,
          index_a, index_b, length>>

---------------------------------------------------------------------------
(* Bounds of the model. *)

\* Longest text handed to split.
MaxLen == 5

\* Largest finite count handed to split (the unbounded count is SIZE_MAX).
MaxCount == 3

\* Longest operand handed to ends_width, starts_width and compare.
MaxOperandLen == 3

\* Longest text of the documented example's alphabet handed to split.
MaxExampleLen == 7

\* Largest magnitude of a non-zero result of compare.
MaxMagnitude == 2

\* Longest wide string handed to to_lower and to_upper.
MaxWideLen == 3

\* Longest template handed to format.
MaxFormatLen == 4

\* Longest string handed to the compare of substrings.
MaxSubLen == 2

---------------------------------------------------------------------------
(* Values of the program. *)

\* std::numeric_limits<size_t>::max() and std::string::npos.  size_t is
\* modelled 31 bits wide, the widest unsigned type whose values TLC
\* can hold; every length of the model is far below it, as every length of
\* the program is far below 2^64 - 1.
SIZE_MAX == 2147483647

\* The characters of the texts: NUL, space, '-' and 'a'.
Chars == {0, 32, 45, 97}

\* The characters of the operands of the case-aware predicates: 'A', 'a', 'b'.
CaseChars == {65, 97, 98}

\* The separator vectors handed to split: none (the white-space default),
\* {'-'}, {'-', ' '} and {'a', '-'}.
SeparatorChoices == {<< >>, <<45>>, <<45, 32>>, <<97, 45>>}

string_split_options == {"none", "remove_empty_entries"}

Strings(alphabet, n) == UNION {[1..k -> alphabet] : k \in 0..n}

Min(a, b) == IF a <= b THEN a ELSE b

---------------------------------------------------------------------------
(* std::basic_string primitives used by the code. *)

\* size_t subtraction: wraps modulo SIZE_MAX + 1.
SizeSub(a, b) == IF a >= b THEN a - b ELSE SIZE_MAX - (b - a) + 1

\* s.substr(pos, n) for pos <= s.size(): the characters [pos, pos + n)
\* clipped to the end of s (positions count from 0).
Substr(s, pos, n) == SubSeq(s, pos + 1, Min(Len(s), pos + n))

\* The characters a const Char* view of s.c_str() holds: those before the
\* first NUL.
CStr(s) ==
  LET nuls == {i \in 1..Len(s) : s[i] = 0}
  IN  IF nuls = {} THEN s
      ELSE SubSeq(s, 1, (CHOOSE i \in nuls : \A j \in nuls : i <= j) - 1)

\* s.rfind(v): the last position at which v occurs in s, npos when none.
RFind(s, v) ==
  LET hits == {p \in 0..(Len(s) - Len(v)) : SubSeq(s, p + 1, p + Len(v)) = v}
  IN  IF hits = {} THEN SIZE_MAX
      ELSE CHOOSE p \in hits : \A q \in hits : q <= p

\* std::tolower(c, std::locale()) in the classic locale.
tolower(c) == IF c \in 65..90 THEN c + 32 ELSE c

to_lower(s) == [i \in 1..Len(s) |-> tolower(s[i])]

---------------------------------------------------------------------------
(* split *)

\* The default set without the space character.
split_char_separatorsNoSpace(seps) ==
  IF Len(seps) = 0 THEN <<9, 10, 11, 12, 13>> ELSE seps

split_char_separators(seps) ==
  IF Len(seps) = 0 THEN <<9, 10, 11, 12, 13, 32>> ELSE seps

\* The search stopping at the first separator of the vector.
is_separatorFirstOnly(seps, c) ==
  /\ Len(split_char_separators(seps)) > 0
  /\ split_char_separators(seps)[1] = c

is_separator(seps, c) ==
  \E i \in 1..Len(split_char_separators(seps)) :
     split_char_separators(seps)[i] = c

\* The append without its guard: the delimiter joins the pending token.
AppendCharAlways(sub, c, sep) == Append(sub, c)

\* if (!is_separator) subString.append(std::string(1, *it));
AppendChar(sub, c, sep) == IF ~sep THEN Append(sub, c) ELSE sub

\* The last-character test one position late: it never holds in the loop.
AtLastCharPastEnd(s, i) == i = Len(s)

\* it - str.begin() == str.length() - 1
AtLastChar(s, i) == i = Len(s) - 1

\* The closing condition without its test of the policy.
CloseTokenKeepsEmpty(s, i, sep, sub, opts) == AtLastChar(s, i) \/ sep

\* The condition under which the pending token is closed.
CloseToken(s, i, sep, sub, opts) ==
  /\ AtLastChar(s, i) \/ sep
  /\ \/ Len(sub) > 0
     \/ Len(sub) = 0 /\ opts # "remove_empty_entries"

\* The limit test one element late.
AtLimitOffByOne(l, c) == Len(l) = c

\* The limit test one element early.
AtLimitEarly(l, c) == Len(l) = c - 2

\* list.size() == count - 1
AtLimit(l, c) == Len(l) = c - 1

\* First argument after the pointer of the std::string built for the last
\* element: the position it copies from.
RestPos(i, sep) == i + (IF sep THEN 1 ELSE 0)

\* Its second argument: the number of characters asked for.
RestLen(s, i, sep) == Len(s) - i + (IF sep THEN 1 ELSE 0)

\* std::string(str.c_str(), pos, n) throws std::out_of_range when pos is
\* beyond the characters the pointer designates.
RestThrows(s, i, sep) == RestPos(i, sep) > Len(CStr(s))

Rest(s, i, sep) == Substr(CStr(s), RestPos(i, sep), RestLen(s, i, sep))

\* One iteration of the for loop, on the record st of the local variables.
LoopBody(st, s, seps, c, opts) ==
  LET ch  == s[st.it + 1]
      sep == is_separator(seps, ch)
      sub == AppendChar(st.subString, ch, sep)
  IN  IF CloseToken(s, st.it, sep, sub, opts)
      THEN IF AtLimit(st.list, c)
           THEN IF RestThrows(s, st.it, sep)
                THEN [pc |-> "terminate", it |-> st.it, subString |-> sub,
                      list |-> st.list]
                ELSE [pc |-> "done", it |-> st.it, subString |-> sub,
                      list |-> Append(st.list, sub \o Rest(s, st.it, sep))]
           ELSE [pc |-> "loop", it |-> st.it + 1, subString |-> << >>,
                 list |-> Append(st.list, sub)]
      ELSE [pc |-> "loop", it |-> st.it + 1, subString |-> sub,
            list |-> st.list]

RECURSIVE Scan(_, _, _, _, _)
Scan(st, s, seps, c, opts) ==
  IF st.pc # "loop" THEN st
  ELSE IF st.it = Len(s) THEN [st EXCEPT !.pc = "done"]
  ELSE Scan(LoopBody(st, s, seps, c, opts), s, seps, c, opts)

\* split(str, separators, count, options): its outcome (pc: "done" when it
\* returns, "terminate" when it does not) and the list it returns.
split(s, seps, c, opts) ==
  IF c = 0 THEN [pc |-> "done", list |-> << >>]
  ELSE IF c = 1 THEN [pc |-> "done", list |-> <<s>>]
  ELSE LET st == Scan([pc |-> "loop", it |-> 0, subString |-> << >>,
                       list |-> << >>], s, seps, c, opts)
       IN  [pc |-> st.pc, list |-> st.list]

---------------------------------------------------------------------------
(* ends_width *)

ends_width(s, v, ic) ==
  IF ic
  THEN SizeSub(RFind(to_lower(s), to_lower(v)), Len(to_lower(v))) = 0
  ELSE SizeSub(RFind(s, v), Len(v)) = 0

---------------------------------------------------------------------------
(* starts_width *)

\* s.find(v): the first position at which v occurs in s, npos when none.
Find(s, v) ==
  LET hits == {p \in 0..(Len(s) - Len(v)) : SubSeq(s, p + 1, p + Len(v)) = v}
  IN  IF hits = {} THEN SIZE_MAX
      ELSE CHOOSE p \in hits : \A q \in hits : p <= q

\* The test of contains: value found at any position.
starts_widthAnywhere(s, v, ic) ==
  IF ic
  THEN Find(to_lower(s), to_lower(v)) # SIZE_MAX
  ELSE Find(s, v) # SIZE_MAX

starts_width(s, v, ic) ==
  IF ic
  THEN Find(to_lower(s), to_lower(v)) = 0
  ELSE Find(s, v) = 0

---------------------------------------------------------------------------
(* compare *)

\* The sign of a.compare(b): that of the first differing pair of characters,
\* or of the difference of the lengths when one is a prefix of the other.
StringCompare(a, b) ==
  LET n == Min(Len(a), Len(b))
      diffs == {i \in 1..n : a[i] # b[i]}
      d == CHOOSE i \in diffs : \A j \in diffs : i <= j
  IN  IF diffs # {} THEN (IF a[d] < b[d] THEN -1 ELSE 1)
      ELSE IF Len(a) < Len(b) THEN -1
      ELSE IF Len(a) > Len(b) THEN 1
      ELSE 0

\* Only the first operand lower-cased.
compareLowersFirstOnly(str_a, str_b, ic) ==
  IF ic
  THEN StringCompare(to_lower(str_a), str_b)
  ELSE StringCompare(str_a, str_b)

compare(str_a, str_b, ic) ==
  IF ic
  THEN StringCompare(to_lower(str_a), to_lower(str_b))
  ELSE StringCompare(str_a, str_b)

---------------------------------------------------------------------------
(* to_lower and to_upper of char16_t and char32_t strings *)

\* A code unit of a wide string, as its two 16-bit halves (hi is 0 in a
\* char16_t): a char32_t needs 32 bits, one more than TLC's integers hold.
Wide(hi, lo) == [hi |-> hi, lo |-> lo]

\* c <= 0xFF
IsByte(c) == c.hi = 0 /\ c.lo <= 255

\* static_cast<char>(c) of a code c <= 0xFF: where char is a signed type the
\* codes 128..255 are the negative values -128..-1.
ToChar(c, signed) == IF signed /\ c.lo >= 128 THEN c.lo - 256 ELSE c.lo

\* static_cast<char16_t>(ch) and static_cast<char32_t>(ch) of a char: a
\* negative value wraps modulo 2^16, 2^32.
FromChar(ch, T) ==
  IF ch >= 0 THEN Wide(0, ch)
  ELSE IF T = "char16_t" THEN Wide(0, 65536 + ch)
  ELSE Wide(65535, 65536 + ch)

\* std::toupper(c, std::locale()) in the classic locale.
toupper(c) == IF c \in 97..122 THEN c - 32 ELSE c

to_lower_wide(s, T, signed) ==
  [i \in 1..Len(s) |->
     IF IsByte(s[i]) THEN FromChar(tolower(ToChar(s[i], signed)), T)
     ELSE s[i]]

to_upper_wide(s, T, signed) ==
  [i \in 1..Len(s) |->
     IF IsByte(s[i]) THEN FromChar(toupper(ToChar(s[i], signed)), T)
     ELSE s[i]]

---------------------------------------------------------------------------
(* format *)

\* The characters of the templates: NUL, '%' and 'a'.
FormatChars == {0, 37, 97}

\* A finished string of character type T.
BasicString(T, s) == [Char |-> T, chars |-> s]

\* What a call with undefined behaviour may do: return any string, or end
\* the program.
Undefined(T) ==
  {[pc |-> "done", ret |-> BasicString(T, s)] :
     s \in Strings(FormatChars, MaxFormatLen)}
    \cup {[pc |-> "terminate", ret |-> BasicString(T, << >>)]}

\* The outcomes of __format(fmt) called with the NUL-terminated template fmt
\* and no argument (the file __format.hpp is not part of the sources; this
\* follows the printf contract of the specification): literal text is
\* copied, "%%" gives '%', and a directive, which lacks its argument, is
\* undefined behaviour.
RECURSIVE __format(_, _)
__format(T, fmt) ==
  IF fmt = << >> THEN {[pc |-> "done", ret |-> BasicString(T, << >>)]}
  ELSE IF fmt[1] # 37
  THEN LET rest == __format(T, Tail(fmt))
       IN  IF \E o \in rest : o.pc = "terminate" THEN Undefined(T)
           ELSE {[pc |-> "done", ret |-> BasicString(T, <<fmt[1]>> \o o.ret.chars)] :
                   o \in rest}
  ELSE IF Len(fmt) >= 2 /\ fmt[2] = 37
  THEN LET rest == __format(T, SubSeq(fmt, 3, Len(fmt)))
       IN  IF \E o \in rest : o.pc = "terminate" THEN Undefined(T)
           ELSE {[pc |-> "done", ret |-> BasicString(T, <<37>> \o o.ret.chars)] :
                   o \in rest}
  ELSE Undefined(T)

\* format(fmt) of a basic_string<T> fmt, without arguments.
format(T, fmt) == __format(T, CStr(fmt))

---------------------------------------------------------------------------
(* compare of substrings *)

\* s.substr(pos, n) with a position clipped to the end of s, never failing.
substrClipsPosition(s, pos, n) ==
  [pc |-> "done",
   ret |-> SubSeq(s, Min(pos, Len(s)) + 1,
                  Min(pos, Len(s)) + Min(n, Len(s) - Min(pos, Len(s))))]

\* s.substr(pos, n): std::out_of_range when pos > s.size(), otherwise the
\* min(n, s.size() - pos) characters from pos on (positions count from 0).
substr(s, pos, n) ==
  IF pos > Len(s) THEN [pc |-> "out_of_range", ret |-> << >>]
  ELSE [pc |-> "done",
        ret |-> SubSeq(s, pos + 1, pos + Min(n, Len(s) - pos))]

\* compare(str_a, index_a, str_b, index_b, length, ignore_case): the
\* exception of either substr leaves the function, which is not noexcept.
compare_substrings(str_a, ia, str_b, ib, len, ic) ==
  LET sa == substr(str_a, ia, len)
      sb == substr(str_b, ib, len)
  IN  IF sa.pc = "out_of_range" \/ sb.pc = "out_of_range"
      THEN [pc |-> "out_of_range", ret |-> 0]
      ELSE [pc |-> "done",
            ret |-> IF ic
                    THEN StringCompare(to_lower(sa.ret), to_lower(sb.ret))
                    ELSE StringCompare(sa.ret, sb.ret)]

---------------------------------------------------------------------------
(* The calls of split. *)

Init ==
  /\ str \in Strings(Chars, MaxLen)
  /\ separators \in SeparatorChoices
  /\ count \in 0..MaxCount \cup {SIZE_MAX}
  /\ options \in string_split_options
  /\ it = 0
  /\ subString = << >>
  /\ list = << >>
  /\ value = << >>
  /\ ignore_case = FALSE
  /\ ret = FALSE
  /\ pc = "call"
  /\ fn = "split"
  /\ Char = "char"
  /\ char_signed = TRUE
  /\ index_a = 0
  /\ index_b = 0
  /\ length = 0

\* The call without its test of count == 0: the scan starts.
SplitCountZeroOmitted ==
  /\ pc = "call"
  /\ count = 0
  /\ list' = << >>
  /\ subString' = << >>
  /\ it' = 0
  /\ pc' = "loop"
  /\ UNCHANGED <<fn, Char, char_signed, index_a, index_b, length>>
  /\ UNCHANGED <<str, separators, count, options, value, ignore_case, ret>>

\* if (count == 0) return {};
SplitCountZero ==
  /\ pc = "call"
  /\ count = 0
  /\ list' = << >>
  /\ pc' = "done"
  /\ UNCHANGED <<fn, Char, char_signed, index_a, index_b, length>>
  /\ UNCHANGED <<str, separators, count, options, it, subString, value,
                 ignore_case, ret>>

\* The call without its test of count == 1: the scan starts.
SplitCountOneOmitted ==
  /\ pc = "call"
  /\ count = 1
  /\ list' = << >>
  /\ subString' = << >>
  /\ it' = 0
  /\ pc' = "loop"
  /\ UNCHANGED <<fn, Char, char_signed, index_a, index_b, length>>
  /\ UNCHANGED <<str, separators, count, options, value, ignore_case, ret>>

\* if (count == 1) return {str};
SplitCountOne ==
  /\ pc = "call"
  /\ count = 1
  /\ list' = <<str>>
  /\ pc' = "done"
  /\ UNCHANGED <<fn, Char, char_signed, index_a, index_b, length>>
  /\ UNCHANGED <<str, separators, count, options, it, subString, value,
                 ignore_case, ret>>

\* The declarations before the loop and it = str.begin().
SplitBegin ==
  /\ pc = "call"
  /\ count \notin {0, 1}
  /\ list' = << >>
  /\ subString' = << >>
  /\ it' = 0
  /\ pc' = "loop"
  /\ UNCHANGED <<fn, Char, char_signed, index_a, index_b, length>>
  /\ UNCHANGED <<str, separators, count, options, value, ignore_case, ret>>

\* One iteration of the loop (it != str.end()).
SplitScan ==
  /\ pc = "loop"
  /\ it # Len(str)
  /\ LET st == LoopBody([pc |-> pc, it |-> it, subString |-> subString,
                         list |-> list], str, separators, count, options)
     IN  /\ pc' = st.pc
         /\ it' = st.it
         /\ subString' = st.subString
         /\ list' = st.list
  /\ UNCHANGED <<fn, Char, char_signed, index_a, index_b, length>>
  /\ UNCHANGED <<str, separators, count, options, value, ignore_case, ret>>

\* The loop ends (it == str.end()): return list.
SplitReturn ==
  /\ pc = "loop"
  /\ it = Len(str)
  /\ pc' = "done"
  /\ UNCHANGED <<fn, Char, char_signed, index_a, index_b, length>>
  /\ UNCHANGED <<str, separators, count, options, it, subString, list,
                 value, ignore_case, ret>>

Next ==
  \/ SplitCountZero
  \/ SplitCountOne
  \/ SplitBegin
  \/ SplitScan
  \/ SplitReturn

Spec == Init /\ [][Next]_vars

---------------------------------------------------------------------------
(* The calls of split on the texts of the documented example: texts of
   '-', '_' and 'a' split at '-' and '_'. *)

InitDocExample ==
  /\ str \in Strings({45, 95, 97}, MaxExampleLen)
  /\ separators = <<45, 95>>
  /\ count \in {0, 1, SIZE_MAX}
  /\ options \in string_split_options
  /\ it = 0
  /\ subString = << >>
  /\ list = << >>
  /\ value = << >>
  /\ ignore_case = FALSE
  /\ ret = FALSE
  /\ pc = "call"
  /\ fn = "split"
  /\ Char = "char"
  /\ char_signed = TRUE
  /\ index_a = 0
  /\ index_b = 0
  /\ length = 0

SpecDocExample == InitDocExample /\ [][Next]_vars

---------------------------------------------------------------------------
(* The calls of ends_width. *)

InitEndsWidth ==
  /\ str \in Strings(CaseChars, MaxOperandLen)
  /\ value \in Strings(CaseChars, MaxOperandLen)
  /\ ignore_case \in BOOLEAN
  /\ separators = << >>
  /\ count = 0
  /\ options = "none"
  /\ it = 0
  /\ subString = << >>
  /\ list = << >>
  /\ ret = FALSE
  /\ pc = "call"
  /\ fn = "ends_width"
  /\ Char = "char"
  /\ char_signed = TRUE
  /\ index_a = 0
  /\ index_b = 0
  /\ length = 0

EndsWidthCall ==
  /\ pc = "call"
  /\ ret' = ends_width(str, value, ignore_case)
  /\ pc' = "done"
  /\ UNCHANGED <<fn, Char, char_signed, index_a, index_b, length>>
  /\ UNCHANGED <<str, separators, count, options, it, subString, list,
                 value, ignore_case>>

NextEndsWidth == EndsWidthCall

SpecEndsWidth == InitEndsWidth /\ [][NextEndsWidth]_vars

---------------------------------------------------------------------------
(* The calls of starts_width. *)

\* "Hello" and "he", the operands of the documented scenario.
ScenarioStr == <<72, 101, 108, 108, 111>>

ScenarioValue == <<104, 101>>

InitStartsWidth ==
  /\ str \in Strings(CaseChars, MaxOperandLen) \cup {ScenarioStr}
  /\ value \in Strings(CaseChars, MaxOperandLen) \cup {ScenarioValue}
  /\ ignore_case \in BOOLEAN
  /\ separators = << >>
  /\ count = 0
  /\ options = "none"
  /\ it = 0
  /\ subString = << >>
  /\ list = << >>
  /\ ret = FALSE
  /\ pc = "call"
  /\ fn = "starts_width"
  /\ Char = "char"
  /\ char_signed = TRUE
  /\ index_a = 0
  /\ index_b = 0
  /\ length = 0

StartsWidthCall ==
  /\ pc = "call"
  /\ ret' = starts_width(str, value, ignore_case)
  /\ pc' = "done"
  /\ UNCHANGED <<fn, Char, char_signed, index_a, index_b, length>>
  /\ UNCHANGED <<str, separators, count, options, it, subString, list,
                 value, ignore_case>>

NextStartsWidth == StartsWidthCall

SpecStartsWidth == InitStartsWidth /\ [][NextStartsWidth]_vars

---------------------------------------------------------------------------
(* The calls of compare. *)

\* "ABC" and "abc", the operands of the documented scenario.
ScenarioStrA == <<65, 66, 67>>

ScenarioStrB == <<97, 98, 99>>

\* str is str_a, value is str_b.
InitCompare ==
  /\ str \in Strings(CaseChars, MaxOperandLen) \cup {ScenarioStrA}
  /\ value \in Strings(CaseChars, MaxOperandLen) \cup {ScenarioStrB}
  /\ ignore_case \in BOOLEAN
  /\ separators = << >>
  /\ count = 0
  /\ options = "none"
  /\ it = 0
  /\ subString = << >>
  /\ list = << >>
  /\ ret = 0
  /\ pc = "call"
  /\ fn = "compare"
  /\ Char = "char"
  /\ char_signed = TRUE
  /\ index_a = 0
  /\ index_b = 0
  /\ length = 0

\* The magnitude of a non-zero result is the library's choice.
CompareCall ==
  /\ pc = "call"
  /\ \E m \in 1..MaxMagnitude : ret' = m * compare(str, value, ignore_case)
  /\ pc' = "done"
  /\ UNCHANGED <<fn, Char, char_signed, index_a, index_b, length>>
  /\ UNCHANGED <<str, separators, count, options, it, subString, list,
                 value, ignore_case>>

NextCompare == CompareCall

SpecCompare == InitCompare /\ [][NextCompare]_vars

---------------------------------------------------------------------------
(* The calls of to_lower and to_upper on wide strings. *)

\* The code units of the wide strings: 'A', 'a', U+00E9, U+0391 and, in a
\* char32_t string, U+10000.
WideChars(T) ==
  {Wide(0, 65), Wide(0, 97), Wide(0, 233), Wide(0, 913)}
    \cup (IF T = "char32_t" THEN {Wide(1, 0)} ELSE {})

InitWideCase ==
  /\ Char \in {"char16_t", "char32_t"}
  /\ char_signed \in BOOLEAN
  /\ fn \in {"to_lower", "to_upper"}
  /\ str \in Strings(WideChars(Char), MaxWideLen)
  /\ value = << >>
  /\ ignore_case = FALSE
  /\ separators = << >>
  /\ count = 0
  /\ options = "none"
  /\ it = 0
  /\ subString = << >>
  /\ list = << >>
  /\ ret = << >>
  /\ pc = "call"
  /\ index_a = 0
  /\ index_b = 0
  /\ length = 0

ToLowerCall ==
  /\ pc = "call"
  /\ fn = "to_lower"
  /\ ret' = to_lower_wide(str, Char, char_signed)
  /\ pc' = "done"
  /\ UNCHANGED <<fn, Char, char_signed, index_a, index_b, length>>
  /\ UNCHANGED <<str, separators, count, options, it, subString, list,
                 value, ignore_case>>

ToUpperCall ==
  /\ pc = "call"
  /\ fn = "to_upper"
  /\ ret' = to_upper_wide(str, Char, char_signed)
  /\ pc' = "done"
  /\ UNCHANGED <<fn, Char, char_signed, index_a, index_b, length>>
  /\ UNCHANGED <<str, separators, count, options, it, subString, list,
                 value, ignore_case>>

NextWideCase == ToLowerCall \/ ToUpperCall

SpecWideCase == InitWideCase /\ [][NextWideCase]_vars

---------------------------------------------------------------------------
(* The calls of format without arguments. *)

InitFormat ==
  /\ Char \in {"char", "wchar_t"}
  /\ str \in Strings(FormatChars, MaxFormatLen)
  /\ fn = "format"
  /\ char_signed = TRUE
  /\ value = << >>
  /\ ignore_case = FALSE
  /\ separators = << >>
  /\ count = 0
  /\ options = "none"
  /\ it = 0
  /\ subString = << >>
  /\ list = << >>
  /\ ret = BasicString(Char, << >>)
  /\ pc = "call"
  /\ index_a = 0
  /\ index_b = 0
  /\ length = 0

\* str is fmt.
FormatCall ==
  /\ pc = "call"
  /\ \E o \in format(Char, str) :
       /\ ret' = o.ret
       /\ pc' = o.pc
  /\ UNCHANGED <<fn, Char, char_signed, index_a, index_b, length>>
  /\ UNCHANGED <<str, separators, count, options, it, subString, list,
                 value, ignore_case>>

NextFormat == FormatCall

SpecFormat == InitFormat /\ [][NextFormat]_vars

---------------------------------------------------------------------------
(* The calls of compare on substrings. *)

\* Largest position and largest finite length handed over: two past the end
\* of the longest string.
MaxIndex == MaxSubLen + 2

\* str is str_a, value is str_b.
InitCompareSubstrings ==
  /\ str \in Strings(CaseChars, MaxSubLen)
  /\ value \in Strings(CaseChars, MaxSubLen)
  /\ index_a \in 0..MaxIndex
  /\ index_b \in 0..MaxIndex
  /\ length \in 0..MaxIndex \cup {SIZE_MAX}
  /\ ignore_case \in BOOLEAN
  /\ separators = << >>
  /\ count = 0
  /\ options = "none"
  /\ it = 0
  /\ subString = << >>
  /\ list = << >>
  /\ ret = 0
  /\ pc = "call"
  /\ fn = "compare"
  /\ Char = "char"
  /\ char_signed = TRUE

\* The magnitude of a non-zero result is the library's choice; a call that
\* throws returns no value (ret keeps its initial one).
CompareSubstringsCall ==
  /\ pc = "call"
  /\ LET r == compare_substrings(str, index_a, value, index_b, length,
                                 ignore_case)
     IN  /\ pc' = r.pc
         /\ \E m \in 1..MaxMagnitude : ret' = m * r.ret
  /\ UNCHANGED <<fn, Char, char_signed, index_a, index_b, length>>
  /\ UNCHANGED <<str, separators, count, options, it, subString, list,
                 value, ignore_case>>

NextCompareSubstrings == CompareSubstringsCall

SpecCompareSubstrings ==
  InitCompareSubstrings /\ [][NextCompareSubstrings]_vars

---------------------------------------------------------------------------
(* The stepwise scan computes the function split. *)

ScanComputesSplit ==
  pc \in {"done", "terminate"} =>
    split(str, separators, count, options) = [pc |-> pc, list |-> list]

---------------------------------------------------------------------------
(* What the claims speak of. *)

\* The positions (from 1) of the delimiter characters of s.
SepPositions(s, seps) == {i \in 1..Len(s) : is_separator(seps, s[i])}

\* The position of the k-th delimiter character of s.
KthSepPos(s, seps, k) ==
  CHOOSE p \in SepPositions(s, seps) :
    Cardinality({q \in SepPositions(s, seps) : q <= p}) = k

\* The elements j.. of l, each but the last followed by its delimiter in s
\* (element j by the j-th delimiter of s), concatenated.
RECURSIVE Rejoin(_, _, _, _)
Rejoin(l, s, seps, j) ==
  IF j >= Len(l) THEN l[j]
  ELSE l[j] \o <<s[KthSepPos(s, seps, j)]>> \o Rejoin(l, s, seps, j + 1)

\* What split returns for the same text, separators and policy when the
\* count is unbounded.
Unbounded == split(str, separators, SIZE_MAX, options).list

Returned == pc = "done"

Ended == pc \in {"done", "terminate"}

\* The result was cut by the count limit while the scan was not at the
\* last character.
CutBeforeEnd ==
  Returned /\ count >= 2 /\ Len(list) = count /\ it < Len(str) - 1

---------------------------------------------------------------------------
(* C1..C10 *)

\* C1: with count k in 2.., the keep-empty policy and a text of more than k
\* substrings (more than k - 1 delimiters), split returns k elements, the
\* last holding all the remaining characters from the triggering delimiter
\* on: the first k - 1 elements, each followed by its delimiter, and the
\* last element concatenate to the text.
C1_TruncationReproducesText ==
  (/\ Ended
   /\ options = "none"
   /\ count \in 2..MaxCount
   /\ Cardinality(SepPositions(str, separators)) + 1 > count)
  => /\ Returned
     /\ Len(list) = count
     /\ Rejoin(list, str, separators, 1) = str

\* C2: with the keep-empty policy and the unbounded count every delimiter
\* closes an element and the end of the text closes one more, empty or not:
\* the result has (number of delimiter characters) + 1 elements.
C2_KeepEmptyCountsDelimitersPlusOne ==
  (Ended /\ options = "none" /\ count = SIZE_MAX)
  => /\ Returned
     /\ Len(list) = Cardinality(SepPositions(str, separators)) + 1

\* The operand a predicate compares: lower-cased when the case is ignored.
Operand(s, ic) == IF ic THEN to_lower(s) ELSE s

\* v is the end of s.
IsSuffix(v, s) ==
  Len(v) <= Len(s) /\ SubSeq(s, Len(s) - Len(v) + 1, Len(s)) = v

\* C3: ends_width(str, value, ignore_case) is true exactly when value
\* equals the end of str of value's length, both lower-cased when
\* ignore_case; so ends_width(s, s) is true for every s.
C3_EndsWidthIsSuffixTest ==
  Returned =>
    ret = IsSuffix(Operand(value, ignore_case), Operand(str, ignore_case))

\* C4: a text without any separator character, the empty text included,
\* split with the keep-empty policy and a count above 1, gives [text].
C4_NoSeparatorGivesText ==
  (/\ Ended
   /\ options = "none"
   /\ count > 1
   /\ SepPositions(str, separators) = {})
  => Returned /\ list = <<str>>

\* C5: with remove_empty_entries, whatever the text, the separators and
\* the count (0 and 1 included), no returned element is the empty string,
\* and the empty text gives the empty array.
C5_RemoveEmptyHasNoEmptyElement ==
  (Returned /\ options = "remove_empty_entries")
  => /\ \A i \in 1..Len(list) : list[i] # << >>
     /\ str = << >> => list = << >>

\* C6: when the unbounded split returns more than count elements
\* (count >= 2), split with that count returns exactly count elements, the
\* first count - 1 of them the first count - 1 of the unbounded result.
C6_CutKeepsFirstTokens ==
  (Ended /\ count \in 2..MaxCount /\ Len(Unbounded) > count)
  => /\ Returned
     /\ Len(list) = count
     /\ SubSeq(list, 1, count - 1) = SubSeq(Unbounded, 1, count - 1)

\* C7: the result list never holds more than count elements, during the
\* scan and when it is returned.
C7_AtMostCountElements == Len(list) <= count

C7_Witness == CutBeforeEnd /\ count < SIZE_MAX

\* C8 as claimed: for any count >= 1 greater than the number of elements of
\* the unbounded split, split with that count returns the unbounded result.
C8_Original_CountAboveTokens ==
  (Ended /\ count >= 1 /\ count > Len(Unbounded))
  => Returned /\ list = Unbounded

\* C8 as amended: the same for any count >= 2.
C8_CountAboveTokens ==
  (Ended /\ count >= 2 /\ count > Len(Unbounded))
  => Returned /\ list = Unbounded

C8_Witness ==
  /\ Returned
  /\ count \in 2..MaxCount
  /\ Len(list) \in 2..(count - 1)
  /\ list = Unbounded

\* C9: no separator character is inside a returned element, except inside
\* the last element of a result of exactly count elements.
C9_NoSeparatorInsideTokens ==
  Returned =>
    \A i \in 1..Len(list) :
      \/ i = Len(list) /\ Len(list) = count
      \/ SepPositions(list[i], separators) = {}

C9_Witness ==
  /\ Returned
  /\ count >= 2
  /\ Len(list) \in 2..(count - 1)
  /\ SepPositions(str, separators) # {}
  /\ \E i \in 1..Len(list) : list[i] # << >>

---------------------------------------------------------------------------
(* C11..C20 *)

\* The maximal non-empty runs of non-separator characters of s from
\* position i on, left to right.
RECURSIVE RunsFrom(_, _, _)
RunsFrom(s, seps, i) ==
  IF i > Len(s) THEN << >>
  ELSE IF i \in SepPositions(s, seps) THEN RunsFrom(s, seps, i + 1)
  ELSE LET later == {j \in i..Len(s) : j \in SepPositions(s, seps)}
           e == IF later = {} THEN Len(s)
                ELSE (CHOOSE j \in later : \A k \in later : j <= k) - 1
       IN  <<SubSeq(s, i, e)>> \o RunsFrom(s, seps, e + 1)

\* "  hello   world  ", "hello" and "world".
HelloWorldText ==
  <<32, 32, 104, 101, 108, 108, 111, 32, 32, 32, 119, 111, 114, 108, 100,
    32, 32>>

Hello == <<104, 101, 108, 108, 111>>

World == <<119, 111, 114, 108, 100>>

\* split("  hello   world  ") with the default separators: ["hello",
\* "world"] when empty entries are removed; when they are kept, "hello" and
\* "world" between a first and a last element that are empty.
HelloWorldExample ==
  /\ split(HelloWorldText, << >>, SIZE_MAX, "remove_empty_entries")
       = [pc |-> "done", list |-> <<Hello, World>>]
  /\ LET kept == split(HelloWorldText, << >>, SIZE_MAX, "none").list
     IN  /\ kept[1] = << >>
         /\ kept[Len(kept)] = << >>
         /\ \E i \in 1..Len(kept) : kept[i] = Hello
         /\ \E i \in 1..Len(kept) : kept[i] = World

C13_CountZeroGivesNothing ==
  (Ended /\ count = 0) => Returned /\ list = << >>

C13_Witness ==
  /\ Returned
  /\ count = 0
  /\ options = "none"
  /\ Len(str) >= 2
  /\ SepPositions(str, separators) # {}

\* C14: the empty separator set stands for {9, 10, 11, 12, 13, 32}: split
\* with it gives what split gives with that set; a non-empty set is matched
\* exactly: a scanned character that is not the last one leaves the pending
\* token empty exactly when it is an element of the set.
C14_EmptySeparatorsAreWhiteSpace ==
  /\ (Ended /\ separators = << >>)
     => split(str, <<9, 10, 11, 12, 13, 32>>, count, options)
          = [pc |-> pc, list |-> list]
  /\ (pc = "loop" /\ separators # << >> /\ it \in 1..(Len(str) - 1))
     => ((\E i \in 1..Len(separators) : separators[i] = str[it])
          <=> subString = << >>)

C14_Witness ==
  /\ Returned
  /\ separators = << >>
  /\ count >= 2
  /\ Len(list) >= 2
  /\ \E i \in 1..Len(str) : str[i] = 32
  /\ \E i \in 1..Len(str) : str[i] = 45

\* "a-_aa-_"
DocExampleText == <<97, 45, 95, 97, 97, 45, 95>>

DocExampleCall ==
  /\ str = DocExampleText
  /\ separators = <<45, 95>>
  /\ count = SIZE_MAX
  /\ options = "none"

IsSubstring(v, s) ==
  \E p \in 0..(Len(s) - Len(v)) : SubSeq(s, p + 1, p + Len(v)) = v

RECURSIVE TotalLen(_)
TotalLen(l) == IF l = << >> THEN 0 ELSE Len(Head(l)) + TotalLen(Tail(l))

\* C20: every returned element is a contiguous substring of the text and
\* the elements together hold no more characters than the text.
C20_ElementsAreSubstrings ==
  Returned =>
    /\ \A i \in 1..Len(list) : IsSubstring(list[i], str)
    /\ TotalLen(list) <= Len(str)


\* v is the beginning of s.
IsPrefix(v, s) == Len(v) <= Len(s) /\ SubSeq(s, 1, Len(v)) = v

\* C15: starts_width(str, value, ignore_case) is true exactly when value is
\* a prefix of str, both lower-cased when ignore_case and raw otherwise; the
\* empty value is a prefix of every str; ("Hello", "he", true) is true and
\* ("Hello", "he", false) is false.
C15_StartsWidthIsPrefixTest ==
  Returned =>
    /\ ret = IsPrefix(Operand(value, ignore_case), Operand(str, ignore_case))
    /\ value = << >> => ret
    /\ (str = ScenarioStr /\ value = ScenarioValue) => (ret = ignore_case)

\* A call that is true only because the case is ignored.
C15_Witness ==
  /\ Returned
  /\ fn = "starts_width"
  /\ ignore_case
  /\ ret
  /\ value # << >>
  /\ ~IsPrefix(value, str)


Sign(n) == IF n < 0 THEN -1 ELSE IF n > 0 THEN 1 ELSE 0

\* C16: the sign of compare(a, b, true) is the negation of the sign of
\* compare(b, a, true), and compare(a, b, true) is 0 exactly when a and b are
\* equal after lower-casing; compare("ABC", "abc", true) is 0.
C16_CompareIsAntisymmetric ==
  (Returned /\ ignore_case) =>
    /\ Sign(ret) = -Sign(compare(value, str, TRUE))
    /\ (ret = 0) <=> (to_lower(str) = to_lower(value))
    /\ (str = ScenarioStrA /\ value = ScenarioStrB) => ret = 0

\* Operands that differ in case only.
C16_Witness ==
  /\ Returned
  /\ fn = "compare"
  /\ ignore_case
  /\ str # value
  /\ ret = 0


\* The single-byte case table of the function called.
CaseTable(c) == IF fn = "to_lower" THEN tolower(c) ELSE toupper(c)

\* C17: to_lower and to_upper of a 16-bit or 32-bit string return a string
\* of the same length in which every code above 255 is unchanged and every
\* code in 0..255 is the case table's mapping of that code, again a code in
\* 0..255.
C17_WideCaseMapsBytes ==
  Returned =>
    /\ Len(ret) = Len(str)
    /\ \A i \in 1..Len(str) :
         IF IsByte(str[i])
         THEN ret[i] = Wide(0, CaseTable(str[i].lo)) /\ IsByte(ret[i])
         ELSE ret[i] = str[i]

\* Where char is an unsigned type the conversion is the one claimed.
WideCaseMapsBytesUnsigned == char_signed \/ C17_WideCaseMapsBytes


\* The characters of s.
Range(s) == {s[i] : i \in 1..Len(s)}

\* C19: format of a template without any '%' character, called without
\* arguments, returns a string equal to the template, of the template's
\* character width.
C19_LiteralTemplateUnchanged ==
  (Ended /\ 37 \notin Range(str))
  => Returned /\ ret = BasicString(Char, str)

\* A template without '%' and without NUL is returned unchanged.
LiteralTemplateUnchangedUpToNul ==
  (Ended /\ 37 \notin Range(str) /\ 0 \notin Range(str))
  => Returned /\ ret = BasicString(Char, str)


---------------------------------------------------------------------------
(* C21 *)

\* The characters of s at the positions [i, i + n) that s has (positions
\* count from 0).
ClippedRange(s, i, n) ==
  LET ps == {p \in 0..(Len(s) - 1) : p >= i /\ p - i < n}
  IN  [k \in 1..Cardinality(ps) |-> s[i + k]]

Thrown == pc = "out_of_range"

\* C21: compare(str_a, index_a, str_b, index_b, length, ignore_case) ends
\* in an out-of-range error, returning no value, exactly when index_a is
\* above the length of str_a or index_b above that of str_b; otherwise it
\* returns the order of the ranges [index, index + length) clipped to the
\* end of each string, lower-cased when ignore_case.
C21_SubstringCompareThrowsOutOfRange ==
  (Returned \/ Thrown) =>
    /\ Thrown <=> (index_a > Len(str) \/ index_b > Len(value))
    /\ Thrown => ret = 0
    /\ Returned =>
         Sign(ret) = StringCompare(
           Operand(ClippedRange(str, index_a, length), ignore_case),
           Operand(ClippedRange(value, index_b, length), ignore_case))

\* A call that ends in the error because of index_b alone.
C21_Witness ==
  /\ Thrown
  /\ fn = "compare"
  /\ index_a <= Len(str)
  /\ index_b > Len(value)

=============================================================================
